---- MODULE Spec2Model ----
(***************************************************************************)
(* X Followers Monitor (src/main.py): the collection loop of               *)
(* scroll_followers_list, the snapshot files written by save_progress, the *)
(* diff of compare_followers and the delivery guard of send_to_discord,    *)
(* sequenced as main() sequences them, over several runs of the script.    *)
(*                                                                         *)
(* A follower is the pair <<name, username>> the page yields; names and    *)
(* usernames are small integers so that sorted() has an order to follow.   *)
(* A snapshot keeps the fields the program reads back: total_followers and *)
(* followers (name, username).  profile_url is a function of username and  *)
(* timestamp comes from the clock; neither is read by any modelled step.   *)
(***************************************************************************)
EXTENDS Integers, Sequences, FiniteSets, TLC

(* The loop limits.  src/main.py:38-40 sets NO_NEW_CONTENT_LIMIT = 10,     *)
(* SCROLL_LIMIT = 500 and CHECKPOINT_INTERVAL = 15; the loop is parametric *)
(* in them and the model runs it with small values so that the stall exit, *)
(* the scroll cap and the checkpoints are all reached.                     *)
NO_NEW_CONTENT_LIMIT == 2
SCROLL_LIMIT == 5
CHECKPOINT_INTERVAL == 2

(* Number of runs of the script that the model follows. *)
MaxRuns == 2

(* What the page can show: username 1 is seen under two display names.     *)
Records == { <<1, 1>>, <<3, 1>>, <<2, 2>>, <<1, 3>> }

None == [none |-> TRUE]
Absent == [file |-> "absent"]
Partial == [file |-> "partial"]

IsSnapshot(f) == "followers" \in DOMAIN f

Range(s) == { s[i] : i \in DOMAIN s }

Usernames(followers) == { followers[i].username : i \in DOMAIN followers }

(* Python compares tuples lexicographically: name first, then username. *)
TupleLess(a, b) == a[1] < b[1] \/ (a[1] = b[1] /\ a[2] < b[2])

RECURSIVE sorted(_)
sorted(S) ==
    IF S = {} THEN << >>
    ELSE LET m == CHOOSE x \in S : \A y \in S \ {x} : TupleLess(x, y)
         IN  << m >> \o sorted(S \ {m})

(* The followers list save_progress and main build from the collected set. *)
followers_with_urls(follower_data) ==
    LET s == sorted(follower_data)
    IN  [ i \in 1..Len(s) |-> [name |-> s[i][1], username |-> s[i][2]] ]

SnapshotOf(follower_data) ==
    [ total_followers |-> Cardinality(follower_data),
      followers |-> followers_with_urls(follower_data) ]

(* A diff that keys on the whole record instead of the username. *)
compare_followers_by_record(previous_data, current_data) ==
    IF previous_data = None THEN None
    ELSE
      LET prev == Range(previous_data.followers)
          curr == Range(current_data.followers)
      IN  [ unfollowed |->
                SelectSeq(previous_data.followers, LAMBDA f : f \notin curr),
            new_followers |->
                SelectSeq(current_data.followers, LAMBDA f : f \notin prev),
            unfollowed_count |-> Cardinality(prev \ curr),
            new_followers_count |-> Cardinality(curr \ prev) ]

compare_followers(previous_data, current_data) ==
    IF previous_data = None THEN None
    ELSE
      LET prev_usernames == Usernames(previous_data.followers)
          curr_usernames == Usernames(current_data.followers)
          unfollowed == prev_usernames \ curr_usernames
          new_followers == curr_usernames \ prev_usernames
      IN  [ unfollowed |->
                SelectSeq(previous_data.followers,
                          LAMBDA f : f.username \in unfollowed),
            new_followers |->
                SelectSeq(current_data.followers,
                          LAMBDA f : f.username \in new_followers),
            unfollowed_count |-> Cardinality(unfollowed),
            new_followers_count |-> Cardinality(new_followers) ]

(* get_follower_data: the records the page yields, or [] when page.evaluate *)
(* raises.  res.ok is whether the evaluation succeeded.                     *)
get_follower_data(res) == IF res.ok THEN res.items ELSE {}

(* What one call of page.evaluate can do: yield any records, or raise.     *)
ExtractionOutcomes ==
    { [ok |-> TRUE, items |-> S] : S \in SUBSET Records }
        \cup { [ok |-> FALSE, items |-> {}] }

(* load_previous_data on a readable file; an absent file gives None.       *)
load_previous_data(file) == IF file = Absent THEN None ELSE file

(* A stall counter that growth does not reset. *)
NextStallNoReset(count, followers_added) ==
    IF followers_added = 0 THEN count + 1 ELSE count

(* A stall counter that an empty iteration does not advance. *)
NextStallNoCount(count, followers_added) ==
    IF followers_added = 0 THEN count ELSE 0

(* The stall counter after an iteration that added followers_added records. *)
NextStall(count, followers_added) ==
    IF followers_added = 0 THEN count + 1 ELSE 0

(* send_to_discord: the payload POSTed to the webhook, or None when the    *)
(* function returns before the POST.  "not changes" is Python truthiness:  *)
(* the dict compare_followers returns always has four keys, so only None   *)
(* is falsy.  An embed is kept as its title's kind and count; the user     *)
(* list of the description is not kept.                                    *)
send_to_discord(url_set, ch) ==
    IF ~url_set THEN None
    ELSE IF ch = None THEN None
    ELSE
      LET net_change == ch.new_followers_count - ch.unfollowed_count
          e1 == IF ch.unfollowed_count > 0
                  THEN << [title |-> "unfollowed", count |-> ch.unfollowed_count] >>
                  ELSE << >>
          e2 == IF ch.new_followers_count > 0
                  THEN << [title |-> "new_followers", count |-> ch.new_followers_count] >>
                  ELSE << >>
          e3 == IF net_change > 0 THEN << [title |-> "net_gain", count |-> net_change] >>
                ELSE IF net_change < 0 THEN << [title |-> "net_loss", count |-> net_change] >>
                ELSE << [title |-> "no_net_change", count |-> 0] >>
      IN  [embeds |-> e1 \o e2 \o e3]

VARIABLES
    run,                   \* runs of the script started so far
    pc,                    \* position of the current run in main()
    saving,                \* which call of save_progress is running
    webhook,               \* DISCORD_WEBHOOK_URL was set when send_to_discord ran
    output,                \* OUTPUT_FILE
    latest,                \* LATEST_FILE
    previous_data,         \* main's previous_data
    follower_data,         \* scroll_followers_list's accumulated set
    no_new_content_count,
    scroll_count,
    current_data,          \* main's current_data
    changes,               \* main's changes
    posted,                \* payload POSTed by this run, or None
    baseline,              \* history: LATEST_FILE as the run found it
    everExtracted,         \* history: every record extracted in this run
    extractions,           \* history: calls of get_follower_data in this run
    extractOk,             \* history: the last extraction did not raise
    lastCheckpoint         \* history: set saved by the last completed checkpoint

vars == << run, pc, saving, webhook, output, latest, previous_data,
           follower_data, no_new_content_count, scroll_count, current_data,
           changes, posted, baseline, everExtracted, extractions, extractOk,
           lastCheckpoint >>

files == << output, latest >>
locals == << previous_data, follower_data, no_new_content_count, scroll_count,
             current_data, changes, posted >>
history == << baseline, everExtracted, extractions, extractOk, lastCheckpoint >>

SavePcs == { "open_output", "dump_output", "open_latest", "dump_latest",
             "open_backup", "dump_backup" }
RunningPcs == { "load", "collect", "loop", "returned", "compared" } \cup SavePcs
StoppedPcs == { "idle", "done", "dead" }

Init ==
    /\ run = 0
    /\ pc = "idle"
    /\ saving = "none"
    /\ webhook = FALSE
    /\ output = Absent
    /\ latest = Absent
    /\ previous_data = None
    /\ follower_data = {}
    /\ no_new_content_count = 0
    /\ scroll_count = 0
    /\ current_data = None
    /\ changes = None
    /\ posted = None
    /\ baseline = Absent
    /\ everExtracted = {}
    /\ extractions = 0
    /\ extractOk = TRUE
    /\ lastCheckpoint = None

(* The locals of a process that has not collected anything yet, or that    *)
(* has ended without reaching the comparison.                              *)
FreshLocals ==
    /\ previous_data' = None
    /\ follower_data' = {}
    /\ no_new_content_count' = 0
    /\ scroll_count' = 0
    /\ current_data' = None
    /\ changes' = None
    /\ posted' = None
    /\ everExtracted' = {}
    /\ extractions' = 0
    /\ extractOk' = TRUE

(* A process that ends before the comparison leaves nothing behind but    *)
(* the files.                                                              *)
ProcessGone ==
    /\ FreshLocals
    /\ saving' = "none"
    /\ webhook' = FALSE
    /\ baseline' = Absent
    /\ lastCheckpoint' = None

(* main() up to "Page loaded successfully": a new process, so every local  *)
(* starts afresh.  session_ok is FALSE when the cookies cannot be loaded,  *)
(* the page asks to log in or the browser fails to start.                  *)
Main ==
    /\ pc \in StoppedPcs
    /\ run < MaxRuns
    /\ run' = run + 1
    /\ \E session_ok \in BOOLEAN :
         IF session_ok
           THEN /\ pc' = "load"
                /\ webhook' = FALSE
                /\ baseline' = latest
                /\ saving' = "none"
                /\ lastCheckpoint' = None
                /\ FreshLocals
           ELSE /\ pc' = "dead"
                /\ ProcessGone
    /\ UNCHANGED files

(* previous_data = load_previous_data(); json.load raises on a file that   *)
(* does not hold a whole JSON document, which ends the run.                *)
LoadPrevious ==
    /\ pc = "load"
    /\ IF latest = Partial
         THEN /\ pc' = "dead"
              /\ ProcessGone
         ELSE /\ pc' = "collect"
              /\ previous_data' = load_previous_data(latest)
              /\ UNCHANGED << saving, webhook, follower_data,
                              no_new_content_count, scroll_count, current_data,
                              changes, posted, history >>
    /\ UNCHANGED << run, files >>

(* scroll_followers_list before the loop: the initial collection.          *)
InitialExtract ==
    /\ pc = "collect"
    /\ \E res \in ExtractionOutcomes :
         /\ follower_data' = get_follower_data(res)
         /\ everExtracted' = get_follower_data(res)
         /\ extractOk' = res.ok
    /\ extractions' = 1
    /\ no_new_content_count' = 0
    /\ scroll_count' = 0
    /\ pc' = "loop"
    /\ UNCHANGED << run, saving, webhook, files, previous_data, current_data,
                    changes, posted, baseline, lastCheckpoint >>

(* A loop test that lets one more iteration in once the stall limit is met. *)
LoopConditionInclusive ==
    no_new_content_count <= NO_NEW_CONTENT_LIMIT /\ scroll_count < SCROLL_LIMIT

(* The while condition of the collection loop. *)
LoopCondition ==
    no_new_content_count < NO_NEW_CONTENT_LIMIT /\ scroll_count < SCROLL_LIMIT

(* One iteration of the while loop, up to the checkpoint test.  Counting   *)
(* the cells, smart_scroll and wait_for_new_content catch their own errors *)
(* and leave no trace in the loop's variables.                             *)
Iterate ==
    /\ pc = "loop"
    /\ LoopCondition
    /\ scroll_count' = scroll_count + 1
    /\ \E res \in ExtractionOutcomes :
         LET merged == follower_data \cup get_follower_data(res)
             followers_added == Cardinality(merged) - Cardinality(follower_data)
         IN  /\ follower_data' = merged
             /\ everExtracted' = everExtracted \cup get_follower_data(res)
             /\ extractOk' = res.ok
             /\ no_new_content_count' = NextStall(no_new_content_count, followers_added)
    /\ extractions' = extractions + 1
    /\ IF scroll_count' % CHECKPOINT_INTERVAL = 0
         THEN pc' = "open_output" /\ saving' = "checkpoint"
         ELSE pc' = "loop" /\ UNCHANGED saving
    /\ UNCHANGED << run, webhook, files, previous_data, current_data, changes,
                    posted, baseline, lastCheckpoint >>

(* The loop condition fails: the final save_progress is called.            *)
LoopExit ==
    /\ pc = "loop"
    /\ ~LoopCondition
    /\ pc' = "open_output"
    /\ saving' = "final"
    /\ UNCHANGED << run, webhook, files, locals, history >>

(* save_progress, one file operation at a time.  open(.., "w") truncates   *)
(* the file; json.dump then writes the document.                           *)
OpenOutput ==
    /\ pc = "open_output"
    /\ output' = Partial
    /\ pc' = "dump_output"
    /\ UNCHANGED << run, saving, webhook, latest, locals, history >>

DumpOutput ==
    /\ pc = "dump_output"
    /\ output' = SnapshotOf(follower_data)
    /\ pc' = "open_latest"
    /\ UNCHANGED << run, saving, webhook, latest, locals, history >>

OpenLatest ==
    /\ pc = "open_latest"
    /\ latest' = Partial
    /\ pc' = "dump_latest"
    /\ UNCHANGED << run, saving, webhook, output, locals, history >>

DumpLatest ==
    /\ pc = "dump_latest"
    /\ latest' = SnapshotOf(follower_data)
    /\ pc' = "open_backup"
    /\ UNCHANGED << run, saving, webhook, output, locals, history >>

(* The backup is a new file named after the clock; the program never      *)
(* reads a file of HISTORY_DIR other than LATEST_FILE, and the model keeps *)
(* no content for it.                                                      *)
OpenBackup ==
    /\ pc = "open_backup"
    /\ pc' = "dump_backup"
    /\ UNCHANGED << run, saving, webhook, files, locals, history >>

(* The backup is written and save_progress returns to its caller.          *)
DumpBackup ==
    /\ pc = "dump_backup"
    /\ IF saving = "checkpoint"
         THEN pc' = "loop" /\ lastCheckpoint' = [records |-> follower_data]
         ELSE pc' = "returned" /\ UNCHANGED lastCheckpoint
    /\ saving' = "none"
    /\ UNCHANGED << run, webhook, files, locals, baseline,
                    everExtracted, extractions, extractOk >>

(* A file operation of save_progress raises (OSError: disk full, no        *)
(* permission): main's "except Exception" logs it and the run ends without *)
(* a comparison.  The files stay as the failed operation left them.        *)
SaveRaises ==
    /\ pc \in SavePcs
    /\ pc' = "dead"
    /\ ProcessGone
    /\ UNCHANGED << run, files >>

(* The process is stopped from outside (signal, job timeout) at any point. *)
Killed ==
    /\ pc \in RunningPcs
    /\ pc' = "dead"
    /\ ProcessGone
    /\ UNCHANGED << run, files >>

(* A baseline read from LATEST_FILE at the time of the comparison. *)
ComparisonBaselineReloaded == load_previous_data(latest)

(* The previous snapshot main passes to compare_followers.                 *)
ComparisonBaseline == previous_data

(* main after scroll_followers_list returns: current_data and the diff.    *)
Compare ==
    /\ pc = "returned"
    /\ current_data' = SnapshotOf(follower_data)
    /\ changes' = IF previous_data # None
                    THEN compare_followers(ComparisonBaseline, current_data')
                    ELSE None
    /\ pc' = "compared"
    /\ UNCHANGED << run, saving, webhook, files, previous_data, follower_data,
                    no_new_content_count, scroll_count, posted, history >>

(* main's "if changes:" block, ending in send_to_discord; a failed POST is *)
(* logged and changes nothing.  DISCORD_WEBHOOK_URL is read from the       *)
(* environment when the process starts and by nothing before               *)
(* send_to_discord: url_set is drawn here, where it is first used.         *)
Notify ==
    /\ pc = "compared"
    /\ \E url_set \in BOOLEAN :
         /\ webhook' = url_set
         /\ posted' = IF changes # None
                        THEN send_to_discord(url_set, changes)
                        ELSE None
    /\ pc' = "done"
    /\ UNCHANGED << run, saving, files, previous_data, follower_data,
                    no_new_content_count, scroll_count, current_data, changes,
                    history >>

Step ==
    \/ LoadPrevious
    \/ InitialExtract
    \/ Iterate
    \/ LoopExit
    \/ OpenOutput
    \/ DumpOutput
    \/ OpenLatest
    \/ DumpLatest
    \/ OpenBackup
    \/ DumpBackup
    \/ Compare
    \/ Notify

Next ==
    \/ Main
    \/ Step
    \/ SaveRaises
    \/ Killed

Spec == Init /\ [][Next]_vars

(* A run that nothing stops from outside keeps executing its statements.   *)
FairSpec == Spec /\ WF_vars(Step)

----------------------------------------------------------------------------
(* Vocabulary of the properties. *)

Compared == pc \in { "compared", "done" }
HasDiff == Compared /\ changes # None
IterationStep == scroll_count' = scroll_count + 1
InLoop == pc = "loop" \/ (pc \in SavePcs /\ saving = "checkpoint")
AfterLoad == pc \in { "collect", "loop", "returned", "compared", "done" } \cup SavePcs

Pos(seq, r) == CHOOSE i \in DOMAIN seq : seq[i] = r
InOrderOf(sub, seq) ==
    \A a, b \in DOMAIN sub : a < b => Pos(seq, sub[a]) < Pos(seq, sub[b])
NoRepeat(seq) == \A a, b \in DOMAIN seq : a # b => seq[a] # seq[b]
NoDuplicateUsernames(followers) ==
    \A a, b \in DOMAIN followers :
        a # b => followers[a].username # followers[b].username
RecordsOf(file) == { << f.name, f.username >> : f \in Range(file.followers) }

(* C1: for a present previous snapshot P and the current snapshot C, the   *)
(* diff's unfollowed holds exactly the records of P whose username is the  *)
(* username of no record of C, new_followers exactly the records of C      *)
(* whose username is the username of no record of P, each once and in the  *)
(* order of its snapshot; a username in both with another name is in       *)
(* neither list.                                                           *)
C1_DiffByUsername ==
    HasDiff =>
      LET P == previous_data.followers
          C == current_data.followers
          U == changes.unfollowed
          N == changes.new_followers
      IN  /\ \A r \in Range(P) \cup Range(U) :
                r \in Range(U) <=>
                  (r \in Range(P) /\ \A c \in Range(C) : c.username # r.username)
          /\ \A r \in Range(C) \cup Range(N) :
                r \in Range(N) <=>
                  (r \in Range(C) /\ \A q \in Range(P) : q.username # r.username)
          /\ NoRepeat(U) /\ NoRepeat(N)
          /\ InOrderOf(U, P) /\ InOrderOf(N, C)
          /\ \A q \in Range(P), c \in Range(C) :
                q.username = c.username =>
                  q \notin Range(U) /\ c \notin Range(N)

C1_Witness ==
    /\ pc = "compared"
    /\ changes # None
    /\ Len(changes.unfollowed) > 0
    /\ Len(changes.new_followers) > 0
    /\ \E q \in Range(previous_data.followers), c \in Range(current_data.followers) :
          q.username = c.username /\ q.name # c.name

(* C2: the collection loop terminates: the iteration count never exceeds   *)
(* SCROLL_LIMIT, an iteration only starts while both counters are below    *)
(* their limits, an iteration that adds a record resets the stall counter, *)
(* and a run that is in the loop leaves it.                                *)
C2_LoopTerminates ==
    /\ [](scroll_count <= SCROLL_LIMIT /\ no_new_content_count <= NO_NEW_CONTENT_LIMIT)
    /\ [][IterationStep =>
            /\ no_new_content_count < NO_NEW_CONTENT_LIMIT
            /\ scroll_count < SCROLL_LIMIT
            /\ (follower_data' # follower_data => no_new_content_count' = 0)]_vars
    /\ (InLoop ~> ~InLoop)

C2_Witness ==
    /\ pc = "returned"
    /\ scroll_count = SCROLL_LIMIT
    /\ no_new_content_count < NO_NEW_CONTENT_LIMIT

(* C3: once the stall counter is at its limit the run extracts and scrolls *)
(* no more, and the set scroll_followers_list then returns is exactly the  *)
(* set of records extracted during the run.                                *)
C3_StallReturnsAccumulated ==
    /\ []((pc = "returned" /\ no_new_content_count = NO_NEW_CONTENT_LIMIT)
            => follower_data = everExtracted)
    /\ [][(no_new_content_count = NO_NEW_CONTENT_LIMIT /\ run' = run /\ pc' # "dead")
            => (extractions' = extractions /\ scroll_count' = scroll_count
                /\ follower_data' = follower_data)]_vars

C3_Witness ==
    /\ pc = "returned"
    /\ no_new_content_count = NO_NEW_CONTENT_LIMIT
    /\ scroll_count < SCROLL_LIMIT
    /\ follower_data # {}

(* C4: every snapshot the program has written holds no two followers with  *)
(* the same username.                                                      *)
C4_NoDuplicateUsernames ==
    \A f \in { output, latest } :
        IsSnapshot(f) => NoDuplicateUsernames(f.followers)

(* C5: in every diff, each count is the length of its list and no username *)
(* is in both lists.                                                       *)
C5_DiffCounts ==
    HasDiff =>
      /\ changes.new_followers_count = Len(changes.new_followers)
      /\ changes.unfollowed_count = Len(changes.unfollowed)
      /\ Usernames(changes.new_followers) \cap Usernames(changes.unfollowed) = {}

(* C6: nothing is POSTed unless the webhook is configured and the diff is  *)
(* present and not empty.                                                  *)
C6_NoDeliveryWithoutChanges ==
    posted # None =>
      /\ webhook
      /\ changes # None
      /\ (Len(changes.unfollowed) > 0 \/ Len(changes.new_followers) > 0)

(* C7: LATEST_FILE always holds a whole snapshot (or does not exist yet),  *)
(* so a run's load_previous_data never meets a partly written file.        *)
C7_LatestAlwaysComplete ==
    /\ latest # Partial
    /\ (pc = "load" => (latest = Absent \/ IsSnapshot(latest)))

(* C8: after an iteration whose number is a multiple of CHECKPOINT_INTERVAL *)
(* the accumulated set has been persisted as a snapshot, and a run that    *)
(* dies after a checkpoint leaves in LATEST_FILE at least the records of   *)
(* that checkpoint.                                                        *)
C8_CheckpointSurvives ==
    /\ []((pc = "loop" /\ scroll_count > 0 /\ scroll_count % CHECKPOINT_INTERVAL = 0)
            => /\ lastCheckpoint = [records |-> follower_data]
               /\ latest = SnapshotOf(follower_data))
    /\ [][(lastCheckpoint # None /\ pc' = "dead")
            => /\ IsSnapshot(latest')
               /\ lastCheckpoint.records \subseteq RecordsOf(latest')]_vars

(* C9, as stated: an iteration whose extraction fails does not end the     *)
(* loop and leaves the stall counter as it was.                            *)
C9_FailedExtractionNotCounted ==
    [][(IterationStep /\ ~extractOk')
          => (pc' \in { "loop", "open_output" }
              /\ no_new_content_count' = no_new_content_count)]_vars

(* C9, amended: an iteration whose extraction fails does not end the loop, *)
(* adds no record and advances the stall counter by one, as any other      *)
(* iteration without a new record does.                                    *)
C9_FailedExtractionCounted ==
    [][(IterationStep /\ ~extractOk')
          => (/\ pc' \in { "loop", "open_output" }
              /\ follower_data' = follower_data
              /\ no_new_content_count' = no_new_content_count + 1)]_vars

C9_Witness ==
    /\ pc = "loop"
    /\ ~extractOk
    /\ scroll_count > 0
    /\ no_new_content_count > 0
    /\ no_new_content_count < NO_NEW_CONTENT_LIMIT

(* C10: from the load to the end of the run, previous_data is what         *)
(* LATEST_FILE held when the run started, and the diff is the diff of that *)
(* snapshot with the collected one, whatever the run wrote to LATEST_FILE. *)
C10_BaselineIsPreRun ==
    /\ AfterLoad => previous_data = load_previous_data(baseline)
    /\ HasDiff => changes = compare_followers(load_previous_data(baseline), current_data)

C10_Witness ==
    /\ pc = "compared"
    /\ changes # None
    /\ lastCheckpoint # None
    /\ latest # baseline
    /\ Len(changes.unfollowed) > 0
    /\ Len(changes.new_followers) > 0

====
